---- MODULE Spec2Model ----
(***************************************************************************)
(* CSV Sample Splitter (src/app.py).                                       *)
(*                                                                         *)
(* One run of the script over one uploaded file: size guard, read_csv,     *)
(* transform (required-column check, Sample Type filter, Concentration     *)
(* filter, metadata column drop), empty check, groupby on Sample Name,     *)
(* combined CSV download, ZIP of per-group CSVs, individual downloads.     *)
(*                                                                         *)
(* Text is a sequence of character codes (code points), so that trimming,  *)
(* character classes and the ordering of keys are computed and not         *)
(* assumed.  A cell is a record: na = TRUE is the missing marker (NaN),    *)
(* otherwise s holds the text.  Column names are only ever compared for    *)
(* equality and are kept as strings.                                       *)
(***************************************************************************)
EXTENDS Integers, Sequences, FiniteSets, TLC

VARIABLES
    max_mb,       \* sidebar number_input "Max upload size (MB)"
    uploaded,     \* the uploaded file (or NoUpload)
    pc,           \* position of the script
    df,           \* main: the frame read_csv returned
    t_df,         \* transform: its local df after the row filters
    out_df,       \* main: the frame transform returned
    grouped,      \* main: list(out_df.groupby(...)), a sequence of (key, sub_df)
    idx,          \* the zip loop: the number of groups it has gone through
    zip_entries,  \* the entries written into zip_buf so far, in write order
    page,         \* the elements the run has put on the page, in order
    value,        \* slugify: its parameter / local, reassigned line by line
    slug_pc,      \* slugify: position in the function
    slug_arg      \* slugify: the argument it was called with

vars == <<max_mb, uploaded, pc, df, t_df, out_df, grouped, idx, zip_entries, page,
          value, slug_pc, slug_arg>>

mainVars == <<max_mb, uploaded, pc, df, t_df, out_df, grouped, idx, zip_entries, page>>
slugVars == <<value, slug_pc, slug_arg>>

-----------------------------------------------------------------------------
(* Bounds of the model *)

MaxRows == 3
MaxSlugLen == 3

-----------------------------------------------------------------------------
(* Text *)

Range(s) == {s[i] : i \in 1..Len(s)}

Min(S) == CHOOSE m \in S : \A n \in S : m <= n
Max(S) == CHOOSE m \in S : \A n \in S : n <= m

None == [none |-> TRUE]

NaN == [na |-> TRUE, s |-> <<>>]
Str(s) == [na |-> FALSE, s |-> s]

\* str(value): text stays, the missing marker reads "nan"
astype_str(cell) == IF cell.na THEN <<110, 97, 110>> ELSE cell.s

\* the characters str.strip() removes: 9-13, 28-32, 133, 160 (code points below 256)
SpaceChars == (9..13) \cup (28..32) \cup {133, 160}

\* s.strip(chars): drop the leading and the trailing characters that are in chars
strip_chars(s, chars) ==
    LET keep == {i \in 1..Len(s) : s[i] \notin chars}
    IN  IF keep = {} THEN <<>> ELSE SubSeq(s, Min(keep), Max(keep))

strip(s) == strip_chars(s, SpaceChars)

\* s.replace(old, new) for one-character old and new
replace(s, old, new) == [i \in 1..Len(s) |-> IF s[i] = old THEN new ELSE s[i]]

\* the characters listed in the class [^0-9A-Za-z_\-]
SafeChars == (48..57) \cup (65..90) \cup (97..122) \cup {95, 45}

\* membership in a character class: [chars], or [^chars] when negated
InClass(c, negated, chars) == IF negated THEN c \notin chars ELSE c \in chars

\* re.sub(r"[class]+", "_", s): every maximal run of class characters becomes one "_"
re_sub_runs(s, negated, chars) ==
    LET keep == {i \in 1..Len(s) : \/ ~InClass(s[i], negated, chars)
                                   \/ i = 1
                                   \/ ~InClass(s[i - 1], negated, chars)}
        pos  == [k \in 1..Cardinality(keep) |->
                    CHOOSE i \in keep : Cardinality({j \in keep : j < i}) = k - 1]
    IN  [k \in 1..Cardinality(keep) |->
            IF InClass(s[pos[k]], negated, chars) THEN 95 ELSE s[pos[k]]]

Sample_fallback == <<115, 97, 109, 112, 108, 101>>      \* "sample"

\* slugify, line by line
slug_line91(v) == strip(astype_str(v))
slug_line92(s) == replace(s, 32, 95)
slug_line93(s) == re_sub_runs(s, TRUE, SafeChars)
slug_line94_skipped(s) == s                           \* faulty variant: no collapse of "_" runs
slug_line94(s) == re_sub_runs(s, FALSE, {95})
slug_line95(s) ==
    LET t == strip_chars(s, {95}) IN IF t = <<>> THEN Sample_fallback ELSE t

slugify(v) == slug_line95(slug_line94(slug_line93(slug_line92(slug_line91(v)))))

-----------------------------------------------------------------------------
(* Core configuration *)

SAMPLE_TYPE_COL == "Sample Type"
CONCENTRATION_COL == "Concentration"
SAMPLE_NAME_COL == "Sample Name"

DROP_COLUMNS == <<"Data File Name", "Misc. Info or Comment", "Batch Name", "Operator",
                  "Instrument Name", "Units", "Sample Type", "Element Full Name">>

REQUIRED_COLUMNS == <<SAMPLE_TYPE_COL, CONCENTRATION_COL, SAMPLE_NAME_COL>>

Sample_literal == <<83, 97, 109, 112, 108, 101>>        \* "Sample"

BYTES_PER_MB == 1024 * 1024

-----------------------------------------------------------------------------
(* Data frames: columns (names, in order), index (row labels), rows (one   *)
(* function from column name to cell per row)                              *)

\* the members of a set of integers, ascending
Ascending(S) ==
    [k \in 1..Cardinality(S) |-> CHOOSE i \in S : Cardinality({j \in S : j < i}) = k - 1]

RangeIndex(n) == [i \in 1..n |-> i - 1]

\* the cells read_csv turns into the missing marker (its default na_values)
NA_VALUES == { <<>>, <<78, 65>>, <<78, 97, 78>>, <<110, 97, 110>>, <<110, 117, 108, 108>>,
               <<78, 85, 76, 76>>, <<78, 47, 65>>, <<110, 47, 97>>, <<78, 111, 110, 101>>,
               <<35, 78, 47, 65>>, <<60, 78, 65, 62>>, <<35, 78, 65>>, <<45, 78, 97, 78>>,
               <<45, 110, 97, 110>>, <<35, 78, 47, 65, 32, 78, 47, 65>>,
               <<45, 49, 46, 35, 73, 78, 68>>, <<45, 49, 46, 35, 81, 78, 65, 78>>,
               <<49, 46, 35, 73, 78, 68>>, <<49, 46, 35, 81, 78, 65, 78>> }

\* pd.read_csv(mem_buf, dtype=str, ...): every cell text as it stands (not trimmed),
\* except that the na_values become the missing marker
read_csv(csv) ==
    [columns |-> csv.columns,
     index   |-> RangeIndex(Len(csv.rows)),
     rows    |-> [i \in 1..Len(csv.rows) |->
                    [c \in Range(csv.columns) |->
                        IF csv.rows[i][c] \in NA_VALUES THEN NaN ELSE Str(csv.rows[i][c])]]]

\* f[mask]: the rows whose mask is TRUE, with their labels, in order
boolean_index(f, mask) ==
    LET pos == Ascending({i \in 1..Len(f.rows) : mask[i]})
    IN  [columns |-> f.columns,
         index   |-> [k \in 1..Len(pos) |-> f.index[pos[k]]],
         rows    |-> [k \in 1..Len(pos) |-> f.rows[pos[k]]]]

\* faulty variant: only the first absent column is named
missing_required_first_only(f) ==
    LET all == SelectSeq(REQUIRED_COLUMNS, LAMBDA c : c \notin Range(f.columns))
    IN  IF all = <<>> THEN <<>> ELSE <<all[1]>>

\* transform, line 64
missing_required(f) == SelectSeq(REQUIRED_COLUMNS, LAMBDA c : c \notin Range(f.columns))

\* transform, lines 69-74
mask_sample_type(f) ==
    [i \in 1..Len(f.rows) |-> strip(astype_str(f.rows[i][SAMPLE_TYPE_COL])) = Sample_literal]

\* faulty variant: the notna() test is left out
mask_conc_without_notna(f) ==
    [i \in 1..Len(f.rows) |-> strip(astype_str(f.rows[i][CONCENTRATION_COL])) # <<>>]

\* transform, lines 78-79
mask_conc(f) ==
    [i \in 1..Len(f.rows) |->
        /\ ~f.rows[i][CONCENTRATION_COL].na
        /\ strip(astype_str(f.rows[i][CONCENTRATION_COL])) # <<>>]

\* faulty variant: Units is not in the list
cols_to_drop_without_units(f) ==
    SelectSeq(DROP_COLUMNS, LAMBDA c : c \in Range(f.columns) /\ c # "Units")

\* transform, line 83
cols_to_drop(f) == SelectSeq(DROP_COLUMNS, LAMBDA c : c \in Range(f.columns))

\* f.drop(columns=cols, errors="ignore")
drop(f, cols) ==
    LET kept == SelectSeq(f.columns, LAMBDA c : c \notin Range(cols))
    IN  [columns |-> kept,
         index   |-> f.index,
         rows    |-> [i \in 1..Len(f.rows) |-> [c \in Range(kept) |-> f.rows[i][c]]]]

\* f.reset_index(drop=True)
reset_index(f) == [f EXCEPT !.index = RangeIndex(Len(f.rows))]

\* faulty variant: only the column axis is looked at
empty_columns_only(f) == Len(f.columns) = 0

\* f.empty: some axis has length 0
empty(f) == Len(f.rows) = 0 \/ Len(f.columns) = 0

\* code point order of two texts
RECURSIVE StrLess(_, _)
StrLess(a, b) ==
    IF b = <<>> THEN FALSE
    ELSE IF a = <<>> THEN TRUE
    ELSE IF a[1] # b[1] THEN a[1] < b[1]
    ELSE StrLess(Tail(a), Tail(b))

\* the order groupby sorts its keys in: text by code point, the missing marker last
KeyLess(k1, k2) ==
    IF k1.na THEN FALSE
    ELSE IF k2.na THEN TRUE
    ELSE StrLess(k1.s, k2.s)

\* the distinct values of a column
unique(f, col) == {f.rows[i][col] : i \in 1..Len(f.rows)}

\* faulty variant: dropna is left at its default: rows without a key are in no group
groupby_dropna(f, col) ==
    LET keys   == unique(f, col) \ {NaN}
        sorted == [k \in 1..Cardinality(keys) |->
                     CHOOSE x \in keys : Cardinality({y \in keys : KeyLess(y, x)}) = k - 1]
    IN  [k \in 1..Cardinality(keys) |->
            [sample_name |-> sorted[k],
             sub_df      |-> boolean_index(f, [i \in 1..Len(f.rows) |->
                                                  f.rows[i][col] = sorted[k]])]]

\* faulty variant: sort=False: the groups come in the order their keys first appear
groupby_unsorted(f, col) ==
    LET keys     == unique(f, col)
        first(x) == Min({i \in 1..Len(f.rows) : f.rows[i][col] = x})
        ordered  == [k \in 1..Cardinality(keys) |->
                       CHOOSE x \in keys :
                           Cardinality({y \in keys : first(y) < first(x)}) = k - 1]
    IN  [k \in 1..Cardinality(keys) |->
            [sample_name |-> ordered[k],
             sub_df      |-> boolean_index(f, [i \in 1..Len(f.rows) |->
                                                  f.rows[i][col] = ordered[k]])]]

\* list(f.groupby(col, dropna=False)): sort=True is groupby's default, so the groups
\* come in ascending key order; every group keeps its rows' order and labels
groupby(f, col) ==
    LET keys   == unique(f, col)
        sorted == [k \in 1..Cardinality(keys) |->
                     CHOOSE x \in keys : Cardinality({y \in keys : KeyLess(y, x)}) = k - 1]
    IN  [k \in 1..Cardinality(keys) |->
            [sample_name |-> sorted[k],
             sub_df      |-> boolean_index(f, [i \in 1..Len(f.rows) |->
                                                  f.rows[i][col] = sorted[k]])]]

\* one csv field under QUOTE_NONNUMERIC: quoted, inner quotes doubled
RECURSIVE double_quotes(_)
double_quotes(s) ==
    IF s = <<>> THEN <<>>
    ELSE (IF s[1] = 34 THEN <<34, 34>> ELSE <<s[1]>>) \o double_quotes(Tail(s))

csv_field(cell) == <<34>> \o double_quotes(IF cell.na THEN <<>> ELSE cell.s) \o <<34>>

\* f.to_csv(buf, index=False, quoting=csv.QUOTE_NONNUMERIC): the header, then one
\* record per row, no index column; the missing marker is written as an empty field
to_csv(f) ==
    [header  |-> f.columns,
     records |-> [i \in 1..Len(f.rows) |->
                    [j \in 1..Len(f.columns) |-> csv_field(f.rows[i][f.columns[j]])]]]

csv_ext == <<46, 99, 115, 118>>                         \* ".csv"
combined_file_name ==                                   \* "filtered_all_samples.csv"
    <<102, 105, 108, 116, 101, 114, 101, 100, 95, 97, 108, 108, 95, 115, 97, 109, 112,
      108, 101, 115, 46, 99, 115, 118>>
zip_file_name ==                                        \* "samples_split_by_sample_name.zip"
    <<115, 97, 109, 112, 108, 101, 115, 95, 115, 112, 108, 105, 116, 95, 98, 121, 95, 115,
      97, 109, 112, 108, 101, 95, 110, 97, 109, 101, 46, 122, 105, 112>>

\* faulty variant: an entry of the same name is replaced
writestr_replacing(entries, filename, data) ==
    Append(SelectSeq(entries, LAMBDA e : e.filename # filename),
           [filename |-> filename, data |-> data])

\* ZipFile.writestr(filename, data): the entry is appended; an entry of the same name
\* already written stays in the archive
writestr(entries, filename, data) == Append(entries, [filename |-> filename, data |-> data])

\* ZipFile.read(name): the entry written last under that name
zip_read(entries, name) ==
    entries[Max({i \in 1..Len(entries) : entries[i].filename = name})].data

-----------------------------------------------------------------------------
(* Inputs *)

NoUpload == [none |-> TRUE]

\* a payload read_csv raises on (an empty file, a decode failure, a ragged line)
Malformed == [malformed |-> TRUE]

SeqsUpTo(S, n) == UNION {[1..k -> S] : k \in 0..n}

\* the column layouts of the uploads
FullLayout ==
    <<"Data File Name", "Sample Name", "Operator", "Sample Type", "Element",
      "Concentration", "Units">>
BareLayout == <<"Sample Type", "Concentration", "Sample Name">>

Without(layout, cols) == SelectSeq(layout, LAMBDA c : c \notin cols)

\* the layouts that lack one or more of the required columns
LackingLayouts ==
    {Without(l, cols) : l \in {FullLayout, BareLayout},
                        cols \in (SUBSET Range(REQUIRED_COLUMNS)) \ {{}}}

\* the text of the cells outside the three required columns
OtherText(c) ==
    CASE c = "Data File Name" -> <<49, 46, 100>>         \* "1.d"
      [] c = "Element"        -> <<80, 98>>              \* "Pb"
      [] c = "Units"          -> <<112, 112, 98>>        \* "ppb"
      [] OTHER                -> <<>>                    \* left empty

\* the rows of the uploads: <<Sample Type, Concentration, Sample Name>> as written
RowKinds ==
    { << <<83, 97, 109, 112, 108, 101>>,         <<49, 46, 50>>, <<66>> >>,          \* Sample,1.2,B
      << <<83, 97, 109, 112, 108, 101>>,         <<51, 46, 52>>, <<65>> >>,          \* Sample,3.4,A
      << <<66, 108, 97, 110, 107>>,              <<>>,           <<65>> >>,          \* Blank,,A
      << <<32, 83, 97, 109, 112, 108, 101, 32>>, <<49, 46, 50>>, <<65, 32>> >>,      \* " Sample ",1.2,"A "
      << <<115, 97, 109, 112, 108, 101>>,        <<49, 46, 50>>, <<66>> >>,          \* sample,1.2,B
      << <<83, 97, 109, 112, 108, 101>>,         <<32>>,         <<65>> >>,          \* Sample," ",A
      << <<83, 97, 109, 112, 108, 101>>,         <<>>,           <<66>> >>,          \* Sample,,B
      << <<83, 97, 109, 112, 108, 101>>,         <<49, 46, 50>>, <<>> >>,            \* Sample,1.2,
      << <<83, 97, 109, 112, 108, 101>>,         <<51, 46, 52>>, <<65, 32, 66>> >>,  \* Sample,3.4,A B
      << <<83, 97, 109, 112, 108, 101>>,         <<49, 46, 50>>, <<65, 95, 66>> >> } \* Sample,1.2,A_B

\* a row without a Sample Type, tried in the bare layout
UntypedRow == << <<>>, <<49, 46, 50>>, <<65>> >>                                     \* ,1.2,A

CsvRow(layout, kind) ==
    [c \in Range(layout) |->
        CASE c = SAMPLE_TYPE_COL   -> kind[1]
          [] c = CONCENTRATION_COL -> kind[2]
          [] c = SAMPLE_NAME_COL   -> kind[3]
          [] OTHER                 -> OtherText(c)]

Csv(layout, kinds) ==
    [columns |-> layout, rows |-> [i \in 1..Len(kinds) |-> CsvRow(layout, kinds[i])]]

\* uploads with every required column: up to MaxRows rows in the full layout, one row
\* less in the bare one
FullCsvs ==
    {Csv(FullLayout, ks) : ks \in SeqsUpTo(RowKinds, MaxRows)}
    \cup {Csv(BareLayout, ks) : ks \in SeqsUpTo(RowKinds \cup {UntypedRow}, MaxRows - 1)}

\* uploads that lack a required column
LackingCsvs == {Csv(l, ks) : l \in LackingLayouts, ks \in SeqsUpTo(RowKinds, 1)}

\* the payloads the size guard is tried on
GuardCsvs == {Malformed} \cup {Csv(FullLayout, ks) : ks \in SeqsUpTo(RowKinds, 1)}

MaxMbChoices == {1, 25, 200}                     \* number_input: min 1, default 25, max 200

\* payload sizes around the limit of max_mb megabytes
SizesAround(mb) ==
    {1, mb * BYTES_PER_MB - 1, mb * BYTES_PER_MB, mb * BYTES_PER_MB + 1, 2 * mb * BYTES_PER_MB}

Runs ==
    {[max_mb |-> 25, uploaded |-> NoUpload]}
    \cup {[max_mb |-> 25, uploaded |-> [bytes |-> 0, csv |-> Malformed]]}
    \cup {[max_mb |-> 25, uploaded |-> [bytes |-> 4096, csv |-> c]] :
            c \in FullCsvs \cup LackingCsvs}
    \cup {[max_mb |-> mb, uploaded |-> [bytes |-> n, csv |-> c]] :
            mb \in MaxMbChoices, n \in UNION {SizesAround(m) : m \in MaxMbChoices},
            c \in GuardCsvs}

-----------------------------------------------------------------------------
(* The run of the script *)

NoDownloads == <<>>

Init ==
    /\ \E r \in Runs : max_mb = r.max_mb /\ uploaded = r.uploaded
    /\ pc = "start"
    /\ df = None
    /\ t_df = None
    /\ out_df = None
    /\ grouped = <<>>
    /\ idx = 0
    /\ zip_entries = <<>>
    /\ page = <<>>
    /\ value = None
    /\ slug_pc = "idle"
    /\ slug_arg = None

\* st.error, st.warning, st.write, st.success, st.dataframe, st.download_button
Element(kind, body) == [kind |-> kind, body |-> body]
download_button(file_name, data, key) ==
    [kind |-> "download_button", file_name |-> file_name, data |-> data, key |-> key]

\* except Exception as e: st.error(f"Error: {e}")
ReportError(e) ==
    /\ page' = Append(page, Element("error", e))
    /\ pc' = "done"

\* line 101: nothing was uploaded
NothingUploaded ==
    /\ pc = "start"
    /\ uploaded = NoUpload
    /\ pc' = "done"
    /\ UNCHANGED <<max_mb, uploaded, df, t_df, out_df, grouped, idx, zip_entries, page, slugVars>>

\* line 107: size_mb = len(raw_bytes) / (1024 * 1024), an exact quotient
size_mb(raw_len) == [num |-> raw_len, den |-> BYTES_PER_MB]

\* faulty variant: >= for >
exceeds_or_equals(q, mb) == q.num >= mb * q.den

\* line 108: size_mb > max_mb
exceeds(q, mb) == q.num > mb * q.den

\* lines 104-110: the size guard rejects the payload and st.stop() ends the run
SizeGuardStop ==
    /\ pc = "start"
    /\ uploaded # NoUpload
    /\ exceeds(size_mb(uploaded.bytes), max_mb)
    /\ page' = Append(page, Element("error", [what |-> "size limit", bytes |-> uploaded.bytes,
                                               max_mb |-> max_mb]))
    /\ pc' = "stopped"
    /\ UNCHANGED <<max_mb, uploaded, df, t_df, out_df, grouped, idx, zip_entries, slugVars>>

\* lines 104-108: the payload is within the limit
SizeGuardPass ==
    /\ pc = "start"
    /\ uploaded # NoUpload
    /\ ~exceeds(size_mb(uploaded.bytes), max_mb)
    /\ pc' = "read_csv"
    /\ UNCHANGED <<max_mb, uploaded, df, t_df, out_df, grouped, idx, zip_entries, page, slugVars>>

\* lines 113-116: read_csv parses the payload
LoadCsv ==
    /\ pc = "read_csv"
    /\ uploaded.csv # Malformed
    /\ df' = read_csv(uploaded.csv)
    /\ page' = Append(page, Element("write", [input_rows |-> Len(uploaded.csv.rows)]))
    /\ pc' = "transform"
    /\ UNCHANGED <<max_mb, uploaded, t_df, out_df, grouped, idx, zip_entries, slugVars>>

\* line 114 raises; lines 181-182 report it
LoadCsvFails ==
    /\ pc = "read_csv"
    /\ uploaded.csv = Malformed
    /\ ReportError([what |-> "read_csv"])
    /\ UNCHANGED <<max_mb, uploaded, df, t_df, out_df, grouped, idx, zip_entries, slugVars>>

\* lines 63-66 raise ValueError; lines 181-182 report it
TransformMissingColumns ==
    /\ pc = "transform"
    /\ missing_required(df) # <<>>
    /\ ReportError([what |-> "Missing required column(s)", missing |-> missing_required(df)])
    /\ UNCHANGED <<max_mb, uploaded, df, t_df, out_df, grouped, idx, zip_entries, slugVars>>

\* lines 63-65: every required column is there
TransformColumnsPresent ==
    /\ pc = "transform"
    /\ missing_required(df) = <<>>
    /\ t_df' = df
    /\ pc' = "filter_type"
    /\ UNCHANGED <<max_mb, uploaded, df, out_df, grouped, idx, zip_entries, page, slugVars>>

\* lines 68-75
FilterSampleType ==
    /\ pc = "filter_type"
    /\ t_df' = boolean_index(t_df, mask_sample_type(t_df))
    /\ pc' = "filter_conc"
    /\ UNCHANGED <<max_mb, uploaded, df, out_df, grouped, idx, zip_entries, page, slugVars>>

\* lines 77-80
FilterConcentration ==
    /\ pc = "filter_conc"
    /\ t_df' = boolean_index(t_df, mask_conc(t_df))
    /\ pc' = "drop"
    /\ UNCHANGED <<max_mb, uploaded, df, out_df, grouped, idx, zip_entries, page, slugVars>>

\* lines 82-86 and 119: the drop, the reset of the index, the return to the caller
DropColumnsAndReturn ==
    /\ pc = "drop"
    /\ out_df' = reset_index(drop(t_df, cols_to_drop(t_df)))
    /\ t_df' = None
    /\ pc' = "empty_check"
    /\ UNCHANGED <<max_mb, uploaded, df, grouped, idx, zip_entries, page, slugVars>>

\* lines 121-123: the warning, and st.stop() ends the run
EmptyStop ==
    /\ pc = "empty_check"
    /\ empty(out_df)
    /\ page' = Append(page, Element("warning", [what |-> "After filtering, no rows remain."]))
    /\ pc' = "stopped"
    /\ UNCHANGED <<max_mb, uploaded, df, t_df, out_df, grouped, idx, zip_entries, slugVars>>

\* lines 121-134: the preview and the split by Sample Name
SplitBySampleName ==
    /\ pc = "empty_check"
    /\ ~empty(out_df)
    /\ grouped' = groupby(out_df, SAMPLE_NAME_COL)
    /\ page' = page \o << Element("success", [output_rows |-> Len(out_df.rows)]),
                          Element("dataframe", out_df),
                          Element("write", [unique_names |->
                                              Cardinality(unique(out_df, SAMPLE_NAME_COL))]) >>
    /\ pc' = "combined"
    /\ UNCHANGED <<max_mb, uploaded, df, t_df, out_df, idx, zip_entries, slugVars>>

\* lines 136-144: the combined CSV is offered
OfferCombined ==
    /\ pc = "combined"
    /\ page' = Append(page, download_button(combined_file_name, to_csv(out_df), "combined"))
    /\ pc' = "zip"
    /\ UNCHANGED <<max_mb, uploaded, df, t_df, out_df, grouped, idx, zip_entries, slugVars>>

\* lines 149-154: one turn of the loop writes the next group's entry
ZipWriteEntry ==
    /\ pc = "zip"
    /\ idx < Len(grouped)
    /\ LET g == grouped[idx + 1]
       IN  zip_entries' = writestr(zip_entries, slugify(g.sample_name) \o csv_ext,
                                   to_csv(g.sub_df))
    /\ idx' = idx + 1
    /\ UNCHANGED <<max_mb, uploaded, pc, df, t_df, out_df, grouped, page, slugVars>>

\* faulty variant: the failure is swallowed inside the loop, which goes on to the next group
ZipWriteFails_swallowed ==
    /\ pc = "zip"
    /\ idx < Len(grouped)
    /\ idx' = idx + 1
    /\ UNCHANGED <<max_mb, uploaded, pc, df, t_df, out_df, grouped, zip_entries, page,
                   slugVars>>

\* lines 149-154 raise while the next entry is serialized or written (to_csv or
\* writestr fails); lines 181-182 report it
ZipWriteFails ==
    /\ pc = "zip"
    /\ idx < Len(grouped)
    /\ ReportError([what |-> "archive write", entry |-> idx + 1])
    /\ UNCHANGED <<max_mb, uploaded, df, t_df, out_df, grouped, idx, zip_entries, slugVars>>

\* lines 156-161: the loop is over, the archive is closed and offered
OfferZip ==
    /\ pc = "zip"
    /\ idx = Len(grouped)
    /\ page' = Append(page, download_button(zip_file_name, zip_entries, "zip"))
    /\ pc' = "individual"
    /\ UNCHANGED <<max_mb, uploaded, df, t_df, out_df, grouped, idx, zip_entries, slugVars>>

\* lines 164-175: one download per group, in the order of grouped
OfferIndividual ==
    /\ pc = "individual"
    /\ page' = page \o [i \in 1..Len(grouped) |->
                          download_button(slugify(grouped[i].sample_name) \o csv_ext,
                                          to_csv(grouped[i].sub_df),
                                          <<i, slugify(grouped[i].sample_name)>>)]
    /\ pc' = "cleanup"
    /\ UNCHANGED <<max_mb, uploaded, df, t_df, out_df, grouped, idx, zip_entries, slugVars>>

\* lines 177-179: del raw_bytes, mem_buf, df, out_df, combined_buf, zip_buf
Cleanup ==
    /\ pc = "cleanup"
    /\ df' = None
    /\ out_df' = None
    /\ zip_entries' = <<>>
    /\ pc' = "done"
    /\ UNCHANGED <<max_mb, uploaded, t_df, grouped, idx, page, slugVars>>

Next ==
    \/ NothingUploaded
    \/ SizeGuardStop
    \/ SizeGuardPass
    \/ LoadCsv
    \/ LoadCsvFails
    \/ TransformMissingColumns
    \/ TransformColumnsPresent
    \/ FilterSampleType
    \/ FilterConcentration
    \/ DropColumnsAndReturn
    \/ EmptyStop
    \/ SplitBySampleName
    \/ OfferCombined
    \/ ZipWriteEntry
    \/ ZipWriteFails
    \/ OfferZip
    \/ OfferIndividual
    \/ Cleanup

Spec == Init /\ [][Next]_vars

-----------------------------------------------------------------------------
(* slugify on its own: the function is run line by line on one argument *)

SlugAlphabet == {9, 32, 45, 47, 55, 65, 95, 120}        \* tab, space, - / 7 A _ x

SlugExamples == { <<>>, <<65, 32, 66, 47, 67>>, <<32, 32, 120, 95, 95, 121, 32, 32>> }

SlugInputs ==
    {NaN} \cup {Str(s) : s \in SeqsUpTo(SlugAlphabet, MaxSlugLen) \cup SlugExamples}

SlugInit ==
    /\ max_mb = 25
    /\ uploaded = NoUpload
    /\ pc = "done"
    /\ df = None
    /\ t_df = None
    /\ out_df = None
    /\ grouped = <<>>
    /\ idx = 0
    /\ zip_entries = <<>>
    /\ page = <<>>
    /\ slug_arg \in SlugInputs
    /\ value = slug_arg
    /\ slug_pc = "line91"

SlugStep(at, result, to) ==
    /\ slug_pc = at
    /\ value' = result
    /\ slug_pc' = to
    /\ UNCHANGED <<slug_arg, mainVars>>

SlugStrip == SlugStep("line91", slug_line91(value), "line92")
SlugSpaces == SlugStep("line92", slug_line92(value), "line93")
SlugUnsafeRuns == SlugStep("line93", slug_line93(value), "line94")
SlugCollapse == SlugStep("line94", slug_line94(value), "line95")
SlugReturn == SlugStep("line95", slug_line95(value), "returned")

SlugNext ==
    \/ SlugStrip
    \/ SlugSpaces
    \/ SlugUnsafeRuns
    \/ SlugCollapse
    \/ SlugReturn

SlugSpec == SlugInit /\ [][SlugNext]_vars

-----------------------------------------------------------------------------
(* Properties *)

Downloads == {i \in 1..Len(page) : page[i].kind = "download_button"}
Errors == {i \in 1..Len(page) : page[i].kind = "error"}
Warnings == {i \in 1..Len(page) : page[i].kind = "warning"}

ErrorsOf(what) == {i \in Errors : page[i].body.what = what}

Column(f, col) == [i \in 1..Len(f.rows) |-> f.rows[i][col]]

\* a row of the loaded frame passes both filters
PassesBoth(row) ==
    /\ strip(astype_str(row[SAMPLE_TYPE_COL])) = <<83, 97, 109, 112, 108, 101>>
    /\ row[CONCENTRATION_COL] # NaN
    /\ strip(row[CONCENTRATION_COL].s) # <<>>

\* C1: after the two filters the frame holds exactly the input rows whose trimmed
\* Sample Type is "Sample" and whose Concentration is neither missing nor blank
\* after trimming, in their original order and under their original labels; the
\* frame transform returns holds those rows' cells.
C1_FilterIsConjunction ==
    LET kept == Ascending({i \in 1..Len(df.rows) : PassesBoth(df.rows[i])})
    IN  /\ pc = "drop" =>
              /\ t_df.rows = [k \in 1..Len(kept) |-> df.rows[kept[k]]]
              /\ t_df.index = [k \in 1..Len(kept) |-> kept[k] - 1]
        /\ (out_df # None /\ df # None) =>
              /\ Len(out_df.rows) = Len(kept)
              /\ \A k \in 1..Len(kept) : \A c \in Range(out_df.columns) :
                     out_df.rows[k][c] = df.rows[kept[k]][c]

\* Sample Type {Sample, Blank, Sample} with Concentration {1.2, blank, 3.4} left 2 rows
C1_Witness ==
    /\ out_df # None
    /\ df # None
    /\ Column(df, SAMPLE_TYPE_COL) = << Str(<<83, 97, 109, 112, 108, 101>>),
                                        Str(<<66, 108, 97, 110, 107>>),
                                        Str(<<83, 97, 109, 112, 108, 101>>) >>
    /\ Column(df, CONCENTRATION_COL) = << Str(<<49, 46, 50>>), NaN, Str(<<51, 46, 52>>) >>
    /\ Len(out_df.rows) = 2

GroupLabels(k) == Range(grouped[k].sub_df.index)

\* C2: the groups partition the filtered frame: no group is empty, every row label of
\* the filtered frame is in exactly one group, every group row is the filtered row of
\* its label, and a row is in the group whose key is its raw Sample Name (the missing
\* marker included), so distinct raw names are distinct groups.
C2_GroupsPartition ==
    (grouped # <<>> /\ out_df # None) =>
        /\ \A k \in 1..Len(grouped) : Len(grouped[k].sub_df.rows) > 0
        /\ \A i \in Range(out_df.index) :
               Cardinality({k \in 1..Len(grouped) : i \in GroupLabels(k)}) = 1
        /\ UNION {GroupLabels(k) : k \in 1..Len(grouped)} = Range(out_df.index)
        /\ \A k \in 1..Len(grouped) :
               LET g == grouped[k].sub_df
               IN  /\ Cardinality(Range(g.index)) = Len(g.index)
                   /\ Len(g.rows) = Len(g.index)
                   /\ \A j \in 1..Len(g.rows) :
                          /\ g.rows[j] = out_df.rows[g.index[j] + 1]
                          /\ g.rows[j][SAMPLE_NAME_COL] = grouped[k].sample_name
                          /\ j > 1 => g.index[j - 1] < g.index[j]
        /\ \A k1, k2 \in 1..Len(grouped) :
               k1 # k2 => grouped[k1].sample_name # grouped[k2].sample_name

\* groups for "A", for "A " and for the missing marker, side by side
C2_Witness ==
    /\ out_df # None
    /\ {grouped[k].sample_name : k \in 1..Len(grouped)} = {Str(<<65>>), Str(<<65, 32>>), NaN}

GroupKeys == [k \in 1..Len(grouped) |-> grouped[k].sample_name]

\* the values of a sequence in the order of their first appearance
RECURSIVE FirstAppearance(_)
FirstAppearance(s) ==
    IF s = <<>> THEN <<>>
    ELSE LET init == FirstAppearance(SubSeq(s, 1, Len(s) - 1))
         IN  IF s[Len(s)] \in Range(init) THEN init ELSE Append(init, s[Len(s)])

\* C3 as stated: the groups come in the order in which each Sample Name first appears
\* among the filtered rows.
C3_FirstAppearanceOrder ==
    (grouped # <<>> /\ out_df # None) =>
        GroupKeys = FirstAppearance(Column(out_df, SAMPLE_NAME_COL))

IndividualDownloads == SelectSeq(page, LAMBDA e : e.kind = "download_button"
                                                  /\ e.file_name # combined_file_name
                                                  /\ e.file_name # zip_file_name)

\* C3 as amended: the groups come in ascending code point order of their keys, the
\* missing marker last, whatever the order of first appearance (filtered names B, A, B
\* give the groups A then B); the archive entries and the individual downloads follow
\* the order of the groups.
C3_SortedKeyOrder ==
    /\ \A k \in 1..Len(grouped) : \A m \in 1..Len(grouped) :
           k < m => \/ grouped[m].sample_name = NaN /\ grouped[k].sample_name # NaN
                    \/ /\ grouped[k].sample_name # NaN
                       /\ grouped[m].sample_name # NaN
                       /\ StrLess(grouped[k].sample_name.s, grouped[m].sample_name.s)
    /\ (out_df # None /\ grouped # <<>>
            /\ Column(out_df, SAMPLE_NAME_COL) = <<Str(<<66>>), Str(<<65>>), Str(<<66>>)>>)
           => GroupKeys = <<Str(<<65>>), Str(<<66>>)>>
    /\ \A i \in 1..Len(zip_entries) :
           zip_entries[i].filename = slugify(grouped[i].sample_name) \o csv_ext
    /\ pc \in {"cleanup", "done"} /\ IndividualDownloads # <<>> =>
           /\ Len(IndividualDownloads) = Len(grouped)
           /\ \A i \in 1..Len(grouped) :
                  IndividualDownloads[i].data = to_csv(grouped[i].sub_df)

\* filtered names B, A, B, and the archive written
C3_Witness ==
    /\ out_df # None
    /\ Column(out_df, SAMPLE_NAME_COL) = <<Str(<<66>>), Str(<<65>>), Str(<<66>>)>>
    /\ GroupKeys = <<Str(<<65>>), Str(<<66>>)>>
    /\ Len(zip_entries) = 2

AbsentRequired == {c \in {"Sample Type", "Concentration", "Sample Name"} :
                      c \notin Range(df.columns)}

\* C4: when a required column is absent, transform raises before any filtering: the
\* run ends with one error that names every absent required column and no present
\* one, no frame was filtered or returned and no download is offered; no such error
\* is raised when all three are present.
C4_MissingColumnsReported ==
    /\ (df # None /\ pc # "transform" /\ AbsentRequired # {}) =>
           /\ pc = "done"
           /\ Cardinality(Errors) = 1
           /\ page[Len(page)].kind = "error"
           /\ page[Len(page)].body.what = "Missing required column(s)"
           /\ Range(page[Len(page)].body.missing) = AbsentRequired
           /\ Len(page[Len(page)].body.missing) = Cardinality(AbsentRequired)
           /\ t_df = None
           /\ out_df = None
           /\ grouped = <<>>
           /\ zip_entries = <<>>
           /\ Downloads = {}
    /\ (df # None /\ AbsentRequired = {}) => ErrorsOf("Missing required column(s)") = {}
    /\ t_df # None => AbsentRequired = {}

\* two required columns are absent and the error is on the page
C4_Witness ==
    /\ df # None
    /\ Cardinality(AbsentRequired) = 2
    /\ ErrorsOf("Missing required column(s)") # {}

\* C5: a payload longer than max_mb * 1024 * 1024 bytes is rejected by the size guard:
\* the run stops with the size-limit error alone on the page and nothing was parsed,
\* transformed or exported; a payload of the limit or less is not rejected by it.
C5_SizeGuard ==
    (uploaded # NoUpload /\ pc # "start") =>
        IF uploaded.bytes > max_mb * 1024 * 1024
        THEN /\ pc = "stopped"
             /\ Len(page) = 1
             /\ page[1].kind = "error"
             /\ page[1].body.what = "size limit"
             /\ df = None
             /\ t_df = None
             /\ out_df = None
             /\ grouped = <<>>
             /\ zip_entries = <<>>
        ELSE ErrorsOf("size limit") = {}

\* a payload one byte over the limit was rejected
C5_Witness ==
    /\ uploaded # NoUpload
    /\ uploaded.bytes = max_mb * 1024 * 1024 + 1
    /\ pc = "stopped"
    /\ ErrorsOf("size limit") # {}

\* a payload of exactly the limit got past the guard and was parsed
C5_WitnessAtLimit ==
    /\ uploaded # NoUpload
    /\ uploaded.bytes = max_mb * 1024 * 1024
    /\ df # None

\* C6: when transform returns zero rows, the run stops with the warning and goes no
\* further: no error is reported, nothing is grouped, no archive entry is written and
\* no download is offered.
C6_EmptyResultStops ==
    (out_df # None /\ Len(out_df.rows) = 0 /\ pc # "empty_check") =>
        /\ pc = "stopped"
        /\ Cardinality(Warnings) = 1
        /\ page[Len(page)].kind = "warning"
        /\ Errors = {}
        /\ Downloads = {}
        /\ grouped = <<>>
        /\ zip_entries = <<>>

\* an upload with rows of which none passed the filters
C6_Witness ==
    /\ pc = "stopped"
    /\ Warnings # {}
    /\ df # None
    /\ Len(df.rows) = 2
    /\ out_df # None
    /\ Len(out_df.rows) = 0

\* the characters slugify keeps as they are
IsWordChar(c) == c \in (48..57) \cup (65..90) \cup (97..122) \cup {45}

\* the maximal runs of kept characters joined by "_"
RECURSIVE JoinedRuns(_, _)
JoinedRuns(s, pending) ==
    IF s = <<>> THEN <<>>
    ELSE IF IsWordChar(s[1])
         THEN (IF pending THEN <<95, s[1]>> ELSE <<s[1]>>) \o JoinedRuns(Tail(s), FALSE)
         ELSE JoinedRuns(Tail(s), TRUE)

RECURSIVE DropLeadingGap(_)
DropLeadingGap(s) ==
    IF s = <<>> \/ IsWordChar(s[1]) THEN s ELSE DropLeadingGap(Tail(s))

Expected_slug(text) ==
    LET body == DropLeadingGap(text)
    IN  IF body = <<>> THEN <<115, 97, 109, 112, 108, 101>>
        ELSE <<body[1]>> \o JoinedRuns(Tail(body), FALSE)

\* C7: what slugify returns is never empty, holds only characters of [0-9A-Za-z_-],
\* has no two adjacent underscores and neither starts nor ends with one; it is the
\* runs of [0-9A-Za-z-] of the argument's text joined by single underscores, or
\* "sample" when there is none; slugify("") = "sample", slugify("A B/C") = "A_B_C",
\* slugify("  x__y  ") = "x_y".
C7_SlugShape ==
    slug_pc = "returned" =>
        /\ value # <<>>
        /\ \A i \in 1..Len(value) :
               value[i] \in (48..57) \cup (65..90) \cup (97..122) \cup {95, 45}
        /\ \A i \in 1..(Len(value) - 1) : ~(value[i] = 95 /\ value[i + 1] = 95)
        /\ value[1] # 95
        /\ value[Len(value)] # 95
        /\ value = Expected_slug(IF slug_arg = NaN THEN <<110, 97, 110>> ELSE slug_arg.s)
        /\ value = slugify(slug_arg)
        /\ slug_arg = Str(<<>>) => value = <<115, 97, 109, 112, 108, 101>>
        /\ slug_arg = Str(<<65, 32, 66, 47, 67>>) => value = <<65, 95, 66, 95, 67>>
        /\ slug_arg = Str(<<32, 32, 120, 95, 95, 121, 32, 32>>) => value = <<120, 95, 121>>

\* slugify("  x__y  ") has returned "x_y"
C7_Witness ==
    /\ slug_pc = "returned"
    /\ slug_arg = Str(<<32, 32, 120, 95, 95, 121, 32, 32>>)
    /\ value = <<120, 95, 121>>

MetadataColumns == {"Data File Name", "Misc. Info or Comment", "Batch Name", "Operator",
                    "Instrument Name", "Units", "Sample Type", "Element Full Name"}

\* C8: the drop removes exactly the listed metadata columns that are present; the
\* other columns stay, in their order and with their cells, and the rows stay.
C8_DropRemovesOnlyListed ==
    [][pc = "drop" =>
          /\ out_df'.columns = SelectSeq(t_df.columns, LAMBDA c : c \notin MetadataColumns)
          /\ Len(out_df'.rows) = Len(t_df.rows)
          /\ \A i \in 1..Len(t_df.rows) :
                 /\ DOMAIN out_df'.rows[i] = Range(t_df.columns) \ MetadataColumns
                 /\ \A c \in DOMAIN out_df'.rows[i] : out_df'.rows[i][c] = t_df.rows[i][c]
          /\ {"Sample Name", "Concentration"} \subseteq Range(out_df'.columns)]_vars

\* a frame that had Units, Operator and Sample Type came back without them, rows kept
C8_Witness ==
    /\ out_df # None
    /\ df # None
    /\ {"Units", "Operator", "Sample Type"} \subseteq Range(df.columns)
    /\ out_df.columns = <<"Sample Name", "Element", "Concentration">>
    /\ Len(out_df.rows) = 2

ArchiveFinished == pc \in {"individual", "cleanup"}

\* C9 as stated: in the finished archive every name has exactly one entry (a later
\* group's CSV replaces an earlier one of the same name).
C9_LastWriteOverwrites ==
    ArchiveFinished =>
        \A i, j \in 1..Len(zip_entries) :
            i # j => zip_entries[i].filename # zip_entries[j].filename

\* C9 as amended: the finished archive holds one entry per group, in group order, each
\* named slugify(key) + ".csv" and holding its group's CSV; a name two keys share is
\* in the archive once per key and no entry is replaced; the run reports no error, and
\* reading the archive by a name gives the CSV of the last group written under it.
C9_ArchiveKeepsEveryEntry ==
    ArchiveFinished =>
        /\ Len(zip_entries) = Len(grouped)
        /\ \A i \in 1..Len(grouped) :
               /\ zip_entries[i].filename = slugify(grouped[i].sample_name) \o csv_ext
               /\ zip_entries[i].data = to_csv(grouped[i].sub_df)
               /\ LET last == Max({j \in 1..Len(grouped) :
                                     slugify(grouped[j].sample_name)
                                         = slugify(grouped[i].sample_name)})
                  IN  zip_read(zip_entries, zip_entries[i].filename)
                          = to_csv(grouped[last].sub_df)
        /\ Errors = {}
        /\ \E i \in Downloads : /\ page[i].file_name = zip_file_name
                                /\ page[i].data = zip_entries

\* the keys "A B" and "A_B" both went into the archive as A_B.csv
C9_Witness ==
    /\ ArchiveFinished
    /\ \E i, j \in 1..Len(zip_entries) :
           /\ i < j
           /\ grouped[i].sample_name = Str(<<65, 32, 66>>)
           /\ grouped[j].sample_name = Str(<<65, 95, 66>>)
           /\ zip_entries[i].filename = <<65, 95, 66>> \o csv_ext
           /\ zip_entries[j].filename = <<65, 95, 66>> \o csv_ext

ArchiveDownloads == {i \in Downloads : page[i].file_name = zip_file_name}

\* C10 as stated: a run whose archive write failed leaves no download on the page.
C10_FailureLeavesNoDownload ==
    ErrorsOf("archive write") # {} => Downloads = {}

\* C10 as amended: when writing a group's entry fails, the run ends with that one
\* error, and neither the archive nor any per-group download is offered; the combined
\* CSV, offered before the archive was begun, stays on the page.  The archive is
\* offered only with every group's entry written.
C10_NoPartialArchive ==
    /\ ErrorsOf("archive write") # {} =>
           /\ pc = "done"
           /\ Cardinality(Errors) = 1
           /\ page[Len(page)].kind = "error"
           /\ ArchiveDownloads = {}
           /\ Cardinality(Downloads) = 1
           /\ \A i \in Downloads : page[i].file_name = combined_file_name
    /\ \A i \in ArchiveDownloads :
           /\ Len(page[i].data) = Len(grouped)
           /\ \A k \in 1..Len(grouped) :
                  page[i].data[k].data = to_csv(grouped[k].sub_df)

\* the second of two entries failed, after the first was written
C10_Witness ==
    /\ ErrorsOf("archive write") # {}
    /\ Len(grouped) = 2
    /\ Len(zip_entries) = 1

====
